---- MODULE Spec2Model ----
(***************************************************************************)
(* ONVIF PTZ proxy: the move-status tracker (onvif_ptz_wrapper.py), the    *)
(* PTZ interceptor (ptz_interceptor.py), the SOAP parameter parsing        *)
(* (soap_handler.py), the request router and capability splicer            *)
(* (proxy_server.py) and the camera forwarder (onvif_proxy.py).            *)
(*                                                                         *)
(* Units.  Positions, velocities and translations are in hundredths        *)
(* (100 = 1.0); durations and remaining times are in tenths of a second    *)
(* (50 = 5.0 s).  With these units |tx|*10 seconds is |tx| tenths, and a   *)
(* velocity-mode position change v*duration*0.1 is (v*d) \div 100; the     *)
(* inputs below are chosen so that this division is exact.                 *)
(*                                                                         *)
(* Threads.  A request handler thread (Flask, threaded=True) is a worker   *)
(* of wk; the detached thread of a synthesized RelativeMove is an entry of *)
(* followups; a threading.Timer is a timer record.  A thread that updates  *)
(* the tracker does so one lock region (or one unlocked statement) at a    *)
(* time: its remaining steps are its todo list.                            *)
(*                                                                         *)
(* Time.  Tick lets time pass up to the next deadline.  A due timer, a due *)
(* follow-up and the tracker updates of a thread are urgent; an outbound   *)
(* camera call takes an arbitrary time.                                    *)
(***************************************************************************)
EXTENDS Integers, Sequences, FiniteSets, TLC

VARIABLES
    native_status_support, \* ONVIFPTZWrapper._native_status_support
    status,                \* _pan_tilt_status / _zoom_status, by axis
    estimated_position,    \* _estimated_position: PanTilt x, y and Zoom x
    stop_timers,           \* _stop_timers: axis -> the Timer stored for it
    detached_timers,       \* started Timers that _stop_timers no longer holds
    wk,                    \* request handler threads
    followups,             \* stop_movement threads of synthesized RelativeMoves
    ncmd,                  \* number of move commands received so far
    routed,                \* handle_onvif_request: the request it routed last
    spliced,               \* add_fov_to_config_options: its input and results
    rewritten,             \* rewrite_response: the configuration, body and result
    cleaned,               \* ONVIFPTZWrapper.cleanup has returned
    translated             \* _handle_relative_move: a translation and what it is turned into

vars == <<native_status_support, status, estimated_position, stop_timers,
          detached_timers, wk, followups, ncmd, routed, spliced, rewritten, cleaned,
          translated>>

tracker == <<status, estimated_position, stop_timers, detached_timers>>

interceptor == <<native_status_support, tracker, wk, followups, ncmd, cleaned>>

proxy == <<routed, spliced, rewritten, translated>>

----------------------------------------------------------------------------
(* Bounds of the model *)

MaxCommands == 2

Workers == {"w1"}

Axes == {"pantilt", "zoom"}

----------------------------------------------------------------------------
(* Program constants *)

DefaultTimeout == 50

RelativeMoveDuration == 20

AbsoluteMoveDuration == 30

FixedVelocity == 50

MinFollowUpDelay == 3

MaxFollowUpDelay == 50

PanTiltMin == -100

PanTiltMax == 100

ZoomMin == 0

ZoomMax == 100

----------------------------------------------------------------------------
(* Values *)

Abs(n) == IF n < 0 THEN -n ELSE n

Max(a, b) == IF a > b THEN a ELSE b

Min(a, b) == IF a < b THEN a ELSE b

NoPanTilt == [has |-> FALSE, x |-> 0, y |-> 0]

NoZoom == [has |-> FALSE, x |-> 0]

NoDuration == [has |-> FALSE, v |-> 0]

PanTiltOf(x, y) == [has |-> TRUE, x |-> x, y |-> y]

ZoomOf(x) == [has |-> TRUE, x |-> x]

DurationOf(v) == [has |-> TRUE, v |-> v]

\* A parsed request: the dictionaries the parse_ptz_* functions return.  pt and
\* zoom are the PanTilt and Zoom entries of Velocity / Translation / Position
\* (for Stop: unused), timeout the parsed Timeout, flags the Stop flags.
MkReq(op, pt, zoom, timeout, fpt, fzoom) ==
    [op |-> op, pt |-> pt, zoom |-> zoom, timeout |-> timeout,
     flagPT |-> fpt, flagZoom |-> fzoom]

NoReq == MkReq("none", NoPanTilt, NoZoom, NoDuration, TRUE, TRUE)

\* A call on the wrapper / camera PTZ service: method and request dictionary.
MkCall(m, pt, zoom, timeout) ==
    [m |-> m, pt |-> pt, zoom |-> zoom, timeout |-> timeout]

NoCall == MkCall("none", NoPanTilt, NoZoom, NoDuration)

NoTimer == [state |-> "absent", dur |-> 0, rem |-> 0]

CancelledTimer == [state |-> "cancelled", dur |-> 0, rem |-> 0]

FiredTimer == [state |-> "fired", dur |-> 0, rem |-> 0]

LiveTimer(d) == [state |-> "live", dur |-> d, rem |-> d]

NoSnap == [src |-> "none", pt |-> "IDLE", zoom |-> "IDLE",
           ptx |-> 0, pty |-> 0, zx |-> 0]

NoCaps == [EFlip |-> FALSE, Reverse |-> FALSE,
           GetCompatibleConfigurations |-> FALSE, MoveStatus |-> FALSE]

MkResp(code, body, snap, caps) ==
    [code |-> code, body |-> body, snap |-> snap, caps |-> caps]

NoResp == MkResp(0, "none", NoSnap, NoCaps)

IdleWorker ==
    [pc |-> "idle", req |-> NoReq, call |-> NoCall, todo |-> <<>>,
     calls |-> <<>>, resp |-> NoResp]

----------------------------------------------------------------------------
(* Inputs *)

\* ContinuousMove: velocity absent, zero, partly absent, one axis moving, and
\* Pan/Tilt moving beside a zero Zoom velocity; Timeout absent, PT0S and PT10S.
ContinuousMoveRequests ==
    {MkReq("ContinuousMove", NoPanTilt, NoZoom, NoDuration, TRUE, TRUE),
     MkReq("ContinuousMove", PanTiltOf(0, 0), ZoomOf(0), DurationOf(100), TRUE, TRUE),
     MkReq("ContinuousMove", PanTiltOf(0, 0), NoZoom, NoDuration, TRUE, TRUE),
     MkReq("ContinuousMove", PanTiltOf(50, 0), NoZoom, NoDuration, TRUE, TRUE),
     MkReq("ContinuousMove", NoPanTilt, ZoomOf(50), DurationOf(100), TRUE, TRUE),
     MkReq("ContinuousMove", PanTiltOf(0, -50), ZoomOf(0), DurationOf(0), TRUE, TRUE)}

\* RelativeMove: Pan/Tilt translations with delay 2.0 s, with the delay at its
\* upper limit (beside a Zoom translation) and at its lower limit (zero
\* translation); Zoom only; neither.
RelativeMoveRequests ==
    {MkReq("RelativeMove", PanTiltOf(20, 0), NoZoom, NoDuration, TRUE, TRUE),
     MkReq("RelativeMove", PanTiltOf(-50, 10), ZoomOf(25), NoDuration, TRUE, TRUE),
     MkReq("RelativeMove", PanTiltOf(0, 0), NoZoom, NoDuration, TRUE, TRUE),
     MkReq("RelativeMove", NoPanTilt, ZoomOf(25), NoDuration, TRUE, TRUE),
     MkReq("RelativeMove", NoPanTilt, NoZoom, NoDuration, TRUE, TRUE)}

\* AbsoluteMove: a position inside the ranges, one outside them on each axis,
\* one component or both.
AbsoluteMoveRequests ==
    {MkReq("AbsoluteMove", PanTiltOf(50, -50), ZoomOf(50), NoDuration, TRUE, TRUE),
     MkReq("AbsoluteMove", PanTiltOf(200, 0), NoZoom, NoDuration, TRUE, TRUE),
     MkReq("AbsoluteMove", NoPanTilt, ZoomOf(-50), NoDuration, TRUE, TRUE)}

StopRequests ==
    {MkReq("Stop", NoPanTilt, NoZoom, NoDuration, f, g) : f \in BOOLEAN, g \in BOOLEAN}

----------------------------------------------------------------------------
(* Status tracker: onvif_ptz_wrapper.py *)

Clamp(v, lo, hi) == Max(lo, Min(hi, v))

NoVelocity == [has |-> FALSE, pt |-> NoPanTilt, zoom |-> NoZoom]

VelocityOf(c) == [has |-> TRUE, pt |-> c.pt, zoom |-> c.zoom]

\* _update_estimated_position(pan_tilt, zoom, duration, velocity): the delta
\* mode for an axis when its argument is given, else the velocity mode when
\* the velocity carries that axis and duration > 0; then all three clamped.
UpdateEstimatedPosition(pos, pan_tilt, zoom, duration, velocity) ==
    LET ptVel == ~pan_tilt.has /\ velocity.has /\ velocity.pt.has /\ duration > 0
        zVel  == ~zoom.has /\ velocity.has /\ velocity.zoom.has /\ duration > 0
        nx == IF pan_tilt.has THEN pos.ptx + pan_tilt.x
              ELSE IF ptVel THEN pos.ptx + (velocity.pt.x * duration) \div 100
              ELSE pos.ptx
        ny == IF pan_tilt.has THEN pos.pty + pan_tilt.y
              ELSE IF ptVel THEN pos.pty + (velocity.pt.y * duration) \div 100
              ELSE pos.pty
        nz == IF zoom.has THEN pos.zx + zoom.x
              ELSE IF zVel THEN pos.zx + (velocity.zoom.x * duration) \div 100
              ELSE pos.zx
    IN  [ptx |-> Clamp(nx, PanTiltMin, PanTiltMax),
         pty |-> Clamp(ny, PanTiltMin, PanTiltMax),
         zx  |-> Clamp(nz, ZoomMin, ZoomMax)]

\* AbsoluteMove's direct assignment of one axis of the estimated position.
SetAbsolutePosition(pos, axis, c) ==
    IF axis = "pantilt"
    THEN [pos EXCEPT !.ptx = c.pt.x, !.pty = c.pt.y]
    ELSE [pos EXCEPT !.zx = c.zoom.x]

\* One step of a thread on the tracker.
Op(k, axis, s, d) == [k |-> k, axis |-> axis, s |-> s, d |-> d]

\* _set_pan_tilt_status / _set_zoom_status(status, duration): the status is
\* written under the lock; then, outside it, the stored timer is cancelled;
\* then, for MOVING with duration > 0, a new timer is started and stored.
SetStatusOps(axis, s, d) ==
    <<Op("set", axis, s, 0), Op("cancel", axis, s, 0)>>
    \o (IF s = "MOVING" /\ d > 0 THEN <<Op("install", axis, s, d)>> ELSE <<>>)

\* The step o runs inside `with self._status_lock`: the write of a status
\* and the updates of the estimated position do; the cancel of the stored
\* timer and the start and storing of a new one do not.
HoldsLock(o) == o.k \in {"set", "velocity", "delta", "absolute"}

\* ContinuousMove's is_stop: no present axis has a non-zero component.
IsStop(c) ==
    /\ ~(c.pt.has /\ (c.pt.x # 0 \/ c.pt.y # 0))
    /\ ~(c.zoom.has /\ c.zoom.x # 0)

\* Variant of the duration that takes every Timeout the request carries.
MoveDurationAsRequested(c) ==
    IF c.timeout.has THEN c.timeout.v ELSE DefaultTimeout

\* ContinuousMove's duration: the timeout when truthy, else the default.
MoveDuration(c) ==
    IF c.timeout.has /\ c.timeout.v # 0 THEN c.timeout.v ELSE DefaultTimeout

\* Variant of ContinuousMove whose is_stop branch leaves the Zoom axis alone.
ContinuousMoveOpsPanTiltOnly(c) ==
    IF IsStop(c)
    THEN SetStatusOps("pantilt", "IDLE", 0)
    ELSE (IF c.pt.has THEN SetStatusOps("pantilt", "MOVING", MoveDuration(c)) ELSE <<>>)
         \o (IF c.zoom.has THEN SetStatusOps("zoom", "MOVING", MoveDuration(c)) ELSE <<>>)
         \o <<Op("velocity", "pantilt", "MOVING", MoveDuration(c))>>

\* ONVIFPTZWrapper.ContinuousMove after the camera call returned.
ContinuousMoveOps(c) ==
    IF IsStop(c)
    THEN SetStatusOps("pantilt", "IDLE", 0) \o SetStatusOps("zoom", "IDLE", 0)
    ELSE (IF c.pt.has THEN SetStatusOps("pantilt", "MOVING", MoveDuration(c)) ELSE <<>>)
         \o (IF c.zoom.has THEN SetStatusOps("zoom", "MOVING", MoveDuration(c)) ELSE <<>>)
         \o <<Op("velocity", "pantilt", "MOVING", MoveDuration(c))>>

\* ONVIFPTZWrapper.RelativeMove after the camera call returned.
RelativeMoveOps(c) ==
    (IF c.pt.has
     THEN SetStatusOps("pantilt", "MOVING", RelativeMoveDuration)
          \o <<Op("delta", "pantilt", "MOVING", 0)>>
     ELSE <<>>)
    \o (IF c.zoom.has
        THEN SetStatusOps("zoom", "MOVING", RelativeMoveDuration)
             \o <<Op("delta", "zoom", "MOVING", 0)>>
        ELSE <<>>)

\* Variant of AbsoluteMove that uses ContinuousMove's default duration.
AbsoluteMoveOpsDefaultDuration(c) ==
    (IF c.pt.has
     THEN SetStatusOps("pantilt", "MOVING", DefaultTimeout)
          \o <<Op("absolute", "pantilt", "MOVING", 0)>>
     ELSE <<>>)
    \o (IF c.zoom.has
        THEN SetStatusOps("zoom", "MOVING", DefaultTimeout)
             \o <<Op("absolute", "zoom", "MOVING", 0)>>
        ELSE <<>>)

\* ONVIFPTZWrapper.AbsoluteMove after the camera call returned.
AbsoluteMoveOps(c) ==
    (IF c.pt.has
     THEN SetStatusOps("pantilt", "MOVING", AbsoluteMoveDuration)
          \o <<Op("absolute", "pantilt", "MOVING", 0)>>
     ELSE <<>>)
    \o (IF c.zoom.has
        THEN SetStatusOps("zoom", "MOVING", AbsoluteMoveDuration)
             \o <<Op("absolute", "zoom", "MOVING", 0)>>
        ELSE <<>>)

TrackerOps(c) ==
    CASE c.m = "ContinuousMove" -> ContinuousMoveOps(c)
      [] c.m = "RelativeMove"   -> RelativeMoveOps(c)
      [] c.m = "AbsoluteMove"   -> AbsoluteMoveOps(c)
      [] OTHER                  -> <<>>

\* The effect of one step o of a thread whose wrapper call is c.
ApplyOp(o, c) ==
    CASE o.k = "set" ->
            /\ status' = [status EXCEPT ![o.axis] = o.s]
            /\ UNCHANGED <<estimated_position, stop_timers, detached_timers>>
      [] o.k = "cancel" ->
            /\ stop_timers' = [stop_timers EXCEPT ![o.axis] =
                                  IF @.state = "live" THEN CancelledTimer ELSE @]
            /\ UNCHANGED <<status, estimated_position, detached_timers>>
      [] o.k = "install" ->
            /\ stop_timers' = [stop_timers EXCEPT ![o.axis] = LiveTimer(o.d)]
            /\ detached_timers' =
                  IF stop_timers[o.axis].state = "live"
                  THEN detached_timers \cup
                         {[axis |-> o.axis, dur |-> stop_timers[o.axis].dur,
                           rem |-> stop_timers[o.axis].rem]}
                  ELSE detached_timers
            /\ UNCHANGED <<status, estimated_position>>
      [] o.k = "velocity" ->
            /\ estimated_position' =
                  UpdateEstimatedPosition(estimated_position, NoPanTilt, NoZoom,
                                          o.d, VelocityOf(c))
            /\ UNCHANGED <<status, stop_timers, detached_timers>>
      [] o.k = "delta" ->
            /\ estimated_position' =
                  IF o.axis = "pantilt"
                  THEN UpdateEstimatedPosition(estimated_position, c.pt, NoZoom,
                                               0, NoVelocity)
                  ELSE UpdateEstimatedPosition(estimated_position, NoPanTilt, c.zoom,
                                               0, NoVelocity)
            /\ UNCHANGED <<status, stop_timers, detached_timers>>
      [] o.k = "absolute" ->
            /\ estimated_position' = SetAbsolutePosition(estimated_position, o.axis, c)
            /\ UNCHANGED <<status, stop_timers, detached_timers>>

\* Variant of the simulated status read without the lock around it: the Zoom
\* status is read after a pending Zoom timer has fired, the rest before.
SnapshotTorn ==
    [src |-> "tracker", pt |-> status["pantilt"],
     zoom |-> IF stop_timers["zoom"].state = "live" THEN "IDLE" ELSE status["zoom"],
     ptx |-> estimated_position.ptx, pty |-> estimated_position.pty,
     zx |-> estimated_position.zx]

\* GetStatus's simulated status: all fields read under the lock.
Snapshot ==
    [src |-> "tracker", pt |-> status["pantilt"], zoom |-> status["zoom"],
     ptx |-> estimated_position.ptx, pty |-> estimated_position.pty,
     zx |-> estimated_position.zx]

\* What the camera's own GetStatus may answer.
CameraSnapshots ==
    {[src |-> "camera", pt |-> p, zoom |-> z, ptx |-> 0, pty |-> 0, zx |-> 0] :
        p \in {"IDLE", "MOVING"}, z \in {"IDLE"}}

----------------------------------------------------------------------------
(* SOAP responses: soap_handler.py *)

\* build_simple_response(operation): an empty <operation>Response.
SimpleResponseBody(op) ==
    CASE op = "ContinuousMove" -> "ContinuousMoveResponse"
      [] op = "RelativeMove"   -> "RelativeMoveResponse"
      [] op = "AbsoluteMove"   -> "AbsoluteMoveResponse"
      [] op = "Stop"           -> "StopResponse"
      [] OTHER                 -> "none"

BuildSimpleResponse(op) == MkResp(200, SimpleResponseBody(op), NoSnap, NoCaps)

\* build_service_capabilities_response(): the canned Capabilities element.
ServiceCapabilities ==
    [EFlip |-> FALSE, Reverse |-> FALSE,
     GetCompatibleConfigurations |-> TRUE, MoveStatus |-> TRUE]

\* Variant of the canned response that does not advertise MoveStatus.
BuildServiceCapabilitiesResponseNoMoveStatus ==
    MkResp(200, "GetServiceCapabilitiesResponse", NoSnap,
           [ServiceCapabilities EXCEPT !.MoveStatus = FALSE])

BuildServiceCapabilitiesResponse ==
    MkResp(200, "GetServiceCapabilitiesResponse", NoSnap, ServiceCapabilities)

\* build_ptz_status_response(status)
BuildStatusResponse(snap) == MkResp(200, "GetStatusResponse", snap, NoCaps)

\* intercept's except branch: build_fault_response('SOAP-ENV:Receiver', ...), 500
FaultResponse == MkResp(500, "Fault", NoSnap, NoCaps)

----------------------------------------------------------------------------
(* PTZ interceptor: ptz_interceptor.py *)

\* The zero-velocity ContinuousMove of _handle_stop and of stop_movement.
StopParams == MkCall("ContinuousMove", PanTiltOf(0, 0), ZoomOf(0), NoDuration)

\* _handle_relative_move: velocity by the sign of the translation.
SignVelocity(t) ==
    IF t > 0 THEN FixedVelocity ELSE IF t < 0 THEN -FixedVelocity ELSE 0

\* Variant of the duration without its limits.
FollowUpDelayUnclamped(tx, ty) == Abs(tx) + Abs(ty)

\* _handle_relative_move: max(0.3, min(5.0, abs(x)*10 + abs(y)*10)) seconds.
FollowUpDelay(tx, ty) ==
    Max(MinFollowUpDelay, Min(MaxFollowUpDelay, Abs(tx) + Abs(ty)))

\* _handle_relative_move: start_params of the first ContinuousMove.
StartParams(r) ==
    MkCall("ContinuousMove",
           PanTiltOf(SignVelocity(r.pt.x), SignVelocity(r.pt.y)), ZoomOf(0), NoDuration)

\* Pan/Tilt translations, in hundredths.
MaxTranslation == 30

Translations == (-MaxTranslation)..MaxTranslation

PanTiltRelativeMove(tx, ty) ==
    MkReq("RelativeMove", PanTiltOf(tx, ty), NoZoom, NoDuration, TRUE, TRUE)

ToTranslate(tx, ty) ==
    [pc |-> "request", tx |-> tx, ty |-> ty, start |-> NoCall, delay |-> 0]

NoTranslated == [pc |-> "idle", tx |-> 0, ty |-> 0, start |-> NoCall, delay |-> 0]

\* _handle_relative_move, Pan/Tilt branch: the start_params and the duration
\* computed from the translation.
TranslateRelativeMove ==
    /\ translated.pc = "request"
    /\ translated' =
          [translated EXCEPT
              !.pc = "started",
              !.start = StartParams(PanTiltRelativeMove(translated.tx, translated.ty)),
              !.delay = FollowUpDelay(translated.tx, translated.ty)]
    /\ UNCHANGED <<interceptor, routed, spliced, rewritten>>

\* The stop_movement thread, as started: asleep for the whole delay.
\* start is the first ContinuousMove of its RelativeMove.
NewFollowUp(start, delay) ==
    [pc |-> "sleep", rem |-> delay, delay |-> delay, start |-> start, todo |-> <<>>,
     result |-> "pending", quiet |-> TRUE]

\* The stop_movement thread, ended: result is "ok" when its ContinuousMove
\* returned and "failed" when it raised.
EndedFollowUp(result) ==
    [pc |-> "done", rem |-> 0, delay |-> 0, start |-> NoCall, todo |-> <<>>,
     result |-> result, quiet |-> TRUE]

\* Variant in which a move command ends the stop_movement threads that have
\* not yet called the camera.
DisturbCancels(fs) ==
    [i \in DOMAIN fs |-> IF fs[i].pc = "sleep" THEN EndedFollowUp("cancelled") ELSE fs[i]]

\* History only: a move command was received while a follow-up was outstanding.
Disturb(fs) ==
    [i \in DOMAIN fs |-> IF fs[i].pc = "done" THEN fs[i] ELSE [fs[i] EXCEPT !.quiet = FALSE]]

\* The handler thread is free to take a request and the server has not been
\* shut down; a move command is taken while the model's budget of commands
\* lasts.
CanReceive(w) == wk[w].pc = "idle" /\ ~cleaned

CanReceiveCommand(w) == CanReceive(w) /\ ncmd < MaxCommands

\* A request is taken and its handler calls the camera with c.
Begin(w, r, c) ==
    wk' = [wk EXCEPT ![w] =
              [pc |-> "call", req |-> r, call |-> c, todo |-> <<>>,
               calls |-> <<c>>, resp |-> NoResp]]

\* A request is taken and answered at once.
Reply(w, r, calls, resp) ==
    wk' = [wk EXCEPT ![w] =
              [pc |-> "idle", req |-> r, call |-> NoCall, todo |-> <<>>,
               calls |-> calls, resp |-> resp]]

\* The request in hand is answered.
Answer(w, resp) ==
    wk' = [wk EXCEPT ![w].pc = "idle", ![w].call = NoCall, ![w].todo = <<>>,
                     ![w].resp = resp]

\* _handle_get_service_capabilities
HandleGetServiceCapabilities(w) ==
    /\ CanReceive(w)
    /\ Reply(w, MkReq("GetServiceCapabilities", NoPanTilt, NoZoom, NoDuration, TRUE, TRUE),
             <<>>, BuildServiceCapabilitiesResponse)
    /\ UNCHANGED <<proxy, cleaned, native_status_support, tracker, followups, ncmd>>

\* Variant of GetStatus that asks the camera whatever was detected.
GetStatusOutcomesForwarded ==
    {[calls |-> <<MkCall("GetStatus", NoPanTilt, NoZoom, NoDuration)>>, snap |-> s] :
        s \in CameraSnapshots \cup {Snapshot}}

\* ONVIFPTZWrapper.GetStatus: the camera's answer when native support was
\* detected and the call succeeds, else the simulated status.
GetStatusOutcomes ==
    IF native_status_support
    THEN {[calls |-> <<MkCall("GetStatus", NoPanTilt, NoZoom, NoDuration)>>, snap |-> s] :
             s \in CameraSnapshots \cup {Snapshot}}
    ELSE {[calls |-> <<>>, snap |-> Snapshot]}

\* _handle_get_status
HandleGetStatus(w) ==
    /\ CanReceive(w)
    /\ \E o \in GetStatusOutcomes :
          Reply(w, MkReq("GetStatus", NoPanTilt, NoZoom, NoDuration, TRUE, TRUE),
                o.calls, BuildStatusResponse(o.snap))
    /\ UNCHANGED <<proxy, cleaned, native_status_support, tracker, followups, ncmd>>

\* _handle_continuous_move, up to the camera call of the wrapper
HandleContinuousMove(w) ==
    /\ CanReceiveCommand(w)
    /\ \E r \in ContinuousMoveRequests :
          Begin(w, r, MkCall("ContinuousMove", r.pt, r.zoom, r.timeout))
    /\ followups' = Disturb(followups)
    /\ ncmd' = ncmd + 1
    /\ UNCHANGED <<proxy, cleaned, native_status_support, tracker>>

\* _handle_absolute_move, up to the camera call of the wrapper
HandleAbsoluteMove(w) ==
    /\ CanReceiveCommand(w)
    /\ \E r \in AbsoluteMoveRequests :
          Begin(w, r, MkCall("AbsoluteMove", r.pt, r.zoom, NoDuration))
    /\ followups' = Disturb(followups)
    /\ ncmd' = ncmd + 1
    /\ UNCHANGED <<proxy, cleaned, native_status_support, tracker>>

\* Variant of _handle_stop that calls the camera's Stop.
HandleStopCameraStop(w) ==
    /\ CanReceiveCommand(w)
    /\ \E r \in StopRequests :
          Begin(w, r, MkCall("Stop", NoPanTilt, NoZoom, NoDuration))
    /\ followups' = Disturb(followups)
    /\ ncmd' = ncmd + 1
    /\ UNCHANGED <<proxy, cleaned, native_status_support, tracker>>

\* _handle_stop, up to the camera call of the wrapper: the flags are parsed
\* and not used.
HandleStop(w) ==
    /\ CanReceiveCommand(w)
    /\ \E r \in StopRequests : Begin(w, r, StopParams)
    /\ followups' = Disturb(followups)
    /\ ncmd' = ncmd + 1
    /\ UNCHANGED <<proxy, cleaned, native_status_support, tracker>>

\* Variant of _handle_relative_move that synthesizes a ContinuousMove for a
\* Zoom translation as well.
HandleRelativeMoveAlwaysSynthesized(w) ==
    /\ CanReceiveCommand(w)
    /\ \E r \in RelativeMoveRequests :
          IF r.pt.has \/ r.zoom.has THEN Begin(w, r, StartParams(r))
          ELSE Reply(w, r, <<>>, BuildSimpleResponse("RelativeMove"))
    /\ followups' = Disturb(followups)
    /\ ncmd' = ncmd + 1
    /\ UNCHANGED <<proxy, cleaned, native_status_support, tracker>>

\* _handle_relative_move, up to the first camera call: the synthesized
\* ContinuousMove when Translation has PanTilt, else the camera's RelativeMove
\* when it has Zoom, else nothing.
HandleRelativeMove(w) ==
    /\ CanReceiveCommand(w)
    /\ \E r \in RelativeMoveRequests :
          IF r.pt.has THEN Begin(w, r, StartParams(r))
          ELSE IF r.zoom.has THEN Begin(w, r, MkCall("RelativeMove", r.pt, r.zoom, NoDuration))
          ELSE Reply(w, r, <<>>, BuildSimpleResponse("RelativeMove"))
    /\ followups' = Disturb(followups)
    /\ ncmd' = ncmd + 1
    /\ UNCHANGED <<proxy, cleaned, native_status_support, tracker>>

\* The camera call of the wrapper returns: the tracking code follows.
CallReturns(w) ==
    /\ wk[w].pc = "call"
    /\ wk' = [wk EXCEPT ![w].pc = "track", ![w].todo = TrackerOps(wk[w].call)]
    /\ UNCHANGED <<proxy, cleaned, native_status_support, tracker, followups, ncmd>>

\* Variant in which the wrapper tracks before it calls the camera: the first
\* tracking step has been made when the call raises.
CallRaisesAfterTracking(w) ==
    /\ wk[w].pc = "call"
    /\ Answer(w, FaultResponse)
    /\ LET ops == TrackerOps(wk[w].call)
       IN  IF ops = <<>> THEN UNCHANGED tracker ELSE ApplyOp(Head(ops), wk[w].call)
    /\ UNCHANGED <<proxy, cleaned, native_status_support, followups, ncmd>>

\* Variant in which the stop_movement thread of a synthesized RelativeMove is
\* started before the first ContinuousMove is known to have succeeded.
CallRaisesFollowUpStarted(w) ==
    /\ wk[w].pc = "call"
    /\ Answer(w, FaultResponse)
    /\ followups' =
          IF wk[w].req.op = "RelativeMove" /\ wk[w].req.pt.has
          THEN Append(followups, NewFollowUp(wk[w].call,
                                             FollowUpDelay(wk[w].req.pt.x, wk[w].req.pt.y)))
          ELSE followups
    /\ UNCHANGED <<proxy, cleaned, native_status_support, tracker, ncmd>>

\* The camera call raises: intercept answers a fault with status 500.
CallRaises(w) ==
    /\ wk[w].pc = "call"
    /\ Answer(w, FaultResponse)
    /\ UNCHANGED <<proxy, cleaned, native_status_support, tracker, followups, ncmd>>

\* The next step of the wrapper's tracking code.
TrackStep(w) ==
    /\ wk[w].pc = "track"
    /\ wk[w].todo # <<>>
    /\ ApplyOp(Head(wk[w].todo), wk[w].call)
    /\ wk' = [wk EXCEPT ![w].todo = Tail(@)]
    /\ UNCHANGED <<proxy, cleaned, native_status_support, followups, ncmd>>

\* Variant of the return in which a synthesized RelativeMove issues its
\* zero-velocity ContinuousMove itself before it answers.
ReturnAfterFollowUp(w) ==
    /\ wk[w].pc = "track"
    /\ wk[w].todo = <<>>
    /\ wk' = [wk EXCEPT ![w].pc = "idle", ![w].call = NoCall, ![w].todo = <<>>,
                        ![w].resp = BuildSimpleResponse(wk[w].req.op),
                        ![w].calls = IF wk[w].req.op = "RelativeMove" /\ wk[w].req.pt.has
                                     THEN Append(@, StopParams) ELSE @]
    /\ UNCHANGED <<proxy, cleaned, native_status_support, tracker, followups, ncmd>>

\* The wrapper returns: a synthesized RelativeMove starts its stop_movement
\* thread; the handler builds the response and returns it with status 200.
Return(w) ==
    /\ wk[w].pc = "track"
    /\ wk[w].todo = <<>>
    /\ Answer(w, BuildSimpleResponse(wk[w].req.op))
    /\ followups' =
          IF wk[w].req.op = "RelativeMove" /\ wk[w].req.pt.has
          THEN Append(followups, NewFollowUp(wk[w].call,
                                             FollowUpDelay(wk[w].req.pt.x, wk[w].req.pt.y)))
          ELSE followups
    /\ UNCHANGED <<proxy, cleaned, native_status_support, tracker, ncmd>>

\* stop_movement: time.sleep(duration) is over; ContinuousMove(stop_params)
\* calls the camera.
FollowUpWakes(i) ==
    /\ followups[i].pc = "sleep"
    /\ followups[i].rem = 0
    /\ followups' = [followups EXCEPT ![i].pc = "call"]
    /\ UNCHANGED <<proxy, cleaned, native_status_support, tracker, wk, ncmd>>

FollowUpCallReturns(i) ==
    /\ followups[i].pc = "call"
    /\ followups' = [followups EXCEPT ![i].pc = "track",
                                      ![i].todo = TrackerOps(StopParams)]
    /\ UNCHANGED <<proxy, cleaned, native_status_support, tracker, wk, ncmd>>

\* Variant in which stop_movement tracks the stop before it calls the camera.
FollowUpCallRaisesAfterTracking(i) ==
    /\ followups[i].pc = "call"
    /\ followups' = [followups EXCEPT ![i] = EndedFollowUp("failed")]
    /\ status' = [a \in Axes |-> "IDLE"]
    /\ UNCHANGED <<proxy, cleaned, native_status_support, estimated_position,
                   stop_timers, detached_timers, wk, ncmd>>

\* The camera call raises in the thread: the thread ends.
FollowUpCallRaises(i) ==
    /\ followups[i].pc = "call"
    /\ followups' = [followups EXCEPT ![i] = EndedFollowUp("failed")]
    /\ UNCHANGED <<proxy, cleaned, native_status_support, tracker, wk, ncmd>>

FollowUpStep(i) ==
    /\ followups[i].pc = "track"
    /\ ApplyOp(Head(followups[i].todo), StopParams)
    /\ followups' = [followups EXCEPT ![i] =
          IF Len(@.todo) = 1 THEN EndedFollowUp("ok") ELSE [@ EXCEPT !.todo = Tail(@)]]
    /\ UNCHANGED <<proxy, cleaned, native_status_support, wk, ncmd>>

----------------------------------------------------------------------------
(* Timers and time *)

\* set_idle of the timer that _stop_timers holds for axis a
TimerFires(a) ==
    /\ stop_timers[a].state = "live"
    /\ stop_timers[a].rem = 0
    /\ status' = [status EXCEPT ![a] = "IDLE"]
    /\ stop_timers' = [stop_timers EXCEPT ![a] = FiredTimer]
    /\ UNCHANGED <<proxy, cleaned, native_status_support, estimated_position, detached_timers,
                   wk, followups, ncmd>>

\* set_idle of a started timer that _stop_timers no longer holds.  A timer is
\* left so only when two handler threads install timers for one axis together,
\* which the single handler thread of Workers never does.
DetachedTimerFires(t) ==
    /\ t \in detached_timers
    /\ t.rem = 0
    /\ status' = [status EXCEPT ![t.axis] = "IDLE"]
    /\ detached_timers' = detached_timers \ {t}
    /\ UNCHANGED <<proxy, cleaned, native_status_support, estimated_position, stop_timers,
                   wk, followups, ncmd>>

\* cleanup, called by the main thread when the server has been interrupted:
\* every timer that _stop_timers holds is cancelled and the table cleared.
Cleanup ==
    /\ ~cleaned
    /\ cleaned' = TRUE
    /\ stop_timers' = [a \in Axes |-> NoTimer]
    /\ UNCHANGED <<proxy, native_status_support, status, estimated_position,
                   detached_timers, wk, followups, ncmd>>

Deadlines ==
    {stop_timers[a].rem : a \in {b \in Axes : stop_timers[b].state = "live"}}
    \cup {t.rem : t \in detached_timers}
    \cup {followups[i].rem : i \in {j \in DOMAIN followups : followups[j].pc = "sleep"}}

Urgent ==
    \/ \E w \in DOMAIN wk : wk[w].pc = "track"
    \/ \E i \in DOMAIN followups : followups[i].pc = "track"

MinOf(S) == CHOOSE m \in S : \A n \in S : m <= n

\* Time passes until the next deadline.
Tick ==
    /\ Deadlines # {}
    /\ 0 \notin Deadlines
    /\ ~Urgent
    /\ LET dt == MinOf(Deadlines) IN
          /\ stop_timers' = [a \in Axes |->
                IF stop_timers[a].state = "live"
                THEN [stop_timers[a] EXCEPT !.rem = @ - dt] ELSE stop_timers[a]]
          /\ detached_timers' = {[t EXCEPT !.rem = @ - dt] : t \in detached_timers}
          /\ followups' = [i \in DOMAIN followups |->
                IF followups[i].pc = "sleep"
                THEN [followups[i] EXCEPT !.rem = @ - dt] ELSE followups[i]]
    /\ UNCHANGED <<proxy, cleaned, native_status_support, status, estimated_position, wk, ncmd>>

----------------------------------------------------------------------------
(* Camera forwarder: onvif_proxy.py *)

\* A SOAP 1.2 fault: Code/Value, Reason/Text (the pieces of text it is
\* formatted from) and the content of the optional detail element.
MkFault(value, reason, detail) == [value |-> value, reason |-> reason, detail |-> detail]

NoFault == MkFault("none", <<>>, "none")

\* A response body as the router sees it: who produced it, for which
\* operation, and the fault it carries if it is one.
MkBody(kind, operation, fault) == [kind |-> kind, operation |-> operation, fault |-> fault]

NoBody == MkBody("none", "none", NoFault)

\* Messages of the exceptions a handler or requests.post can raise.
ExceptionMessages == {"Max retries exceeded", "invalid literal for float()"}

\* Status codes of the camera's own answers.
CameraStatuses == {200, 400, 500}

\* What requests.post does: the camera answers, or an exception is raised.
ForwardOutcomes ==
    {[kind |-> "response", status |-> s, message |-> "none"] : s \in CameraStatuses}
    \cup {[kind |-> "Timeout", status |-> 0, message |-> m] : m \in ExceptionMessages}
    \cup {[kind |-> "ConnectionError", status |-> 0, message |-> m] : m \in ExceptionMessages}
    \cup {[kind |-> "Exception", status |-> 0, message |-> m] : m \in ExceptionMessages}

NoOutcome == [kind |-> "none", status |-> 0, message |-> "none"]

\* Service names are a stem followed by "s" and "_service" pieces:
\* <<"ptz", "_service", "s">> is ptz_services.  No stem ends in the letter s.
Stems == {"device", "media", "ptz", "imaging", "event", "analytic"}

MaxSuffix == 2

Suffixes == UNION {[1..n -> {"s", "_service"}] : n \in 0..MaxSuffix}

Services == {<<stem>> \o t : stem \in Stems, t \in Suffixes}

DeviceService == <<"device", "_service">>
MediaService == <<"media", "_service">>
PtzService == <<"ptz", "_service">>
ImagingService == <<"imaging", "_service">>
EventsService == <<"event", "s", "_service">>

\* The keys of service_urls.
ServiceCatalog == {DeviceService, MediaService, PtzService, ImagingService, EventsService}

\* The fault bodies of forward_request.
TimeoutFault == MkFault("SOAP-ENV:Receiver", <<"Request timeout">>, "none")

ConnectionFault == MkFault("SOAP-ENV:Receiver", <<"Connection error to camera">>, "none")

GenericFault(message) == MkFault("SOAP-ENV:Receiver", <<message>>, "none")

\* A forwarder without the except clauses for Timeout and ConnectionError.
ForwardRequestOneHandler(service, outcome) ==
    IF outcome.kind = "response"
    THEN [url |-> service, body |-> MkBody("camera", "none", NoFault), status |-> outcome.status]
    ELSE [url |-> service, body |-> MkBody("fault", "none", GenericFault(outcome.message)),
          status |-> 500]

\* forward_request: the URL posted to is the catalog's, or the default
\* pattern /onvif/<service> for a name the catalog lacks: the path is the
\* name either way.  Every exception of the call is turned into a fault.
ForwardRequest(service, outcome) ==
    [url |-> service,
     body |-> CASE outcome.kind = "response" -> MkBody("camera", "none", NoFault)
                [] outcome.kind = "Timeout" -> MkBody("fault", "none", TimeoutFault)
                [] outcome.kind = "ConnectionError" -> MkBody("fault", "none", ConnectionFault)
                [] OTHER -> MkBody("fault", "none", GenericFault(outcome.message)),
     status |-> IF outcome.kind = "response" THEN outcome.status ELSE 500]

----------------------------------------------------------------------------
(* Address rewriting: onvif_proxy.py *)

\* Texts are sequences of characters.  str.replace: every non-overlapping
\* occurrence of old, from the left, becomes new.
RECURSIVE Replace(_, _, _)
Replace(s, old, new) ==
    IF Len(s) < Len(old) THEN s
    ELSE IF SubSeq(s, 1, Len(old)) = old
         THEN new \o Replace(SubSeq(s, Len(old) + 1, Len(s)), old, new)
         ELSE <<Head(s)>> \o Replace(Tail(s), old, new)

Occurs(sub, s) == \E i \in 1..(Len(s) - Len(sub) + 1) : SubSeq(s, i, i + Len(sub) - 1) = sub

\* camera_ip, camera_port, proxy_host and proxy_port of the forwarder:
\* hosts and ports all different, a proxy host that begins with the camera
\* host (192.168.1.1 and 192.168.1.10), and the same port on both sides.
Addresses ==
    {[camera_ip |-> <<"c">>, camera_port |-> <<"8">>, proxy_host |-> <<"p">>, proxy_port |-> <<"9">>],
     [camera_ip |-> <<"c">>, camera_port |-> <<"8">>, proxy_host |-> <<"c", "p">>, proxy_port |-> <<"9">>],
     [camera_ip |-> <<"c">>, camera_port |-> <<"8">>, proxy_host |-> <<"p">>, proxy_port |-> <<"8">>]}

Characters == {"c", "p", "8", "9", ":", "/", "<", " "}

MaxText == 4

Texts == UNION {[1..n -> Characters] : n \in 0..MaxText}

\* An inbound rewrite with the port replaced wherever ":<port>" stands.
RewriteResponseEveryPort(cfg, soap_response) ==
    Replace(Replace(soap_response, cfg.camera_ip, cfg.proxy_host),
            <<":">> \o cfg.camera_port, <<":">> \o cfg.proxy_port)

rewrite_response(cfg, soap_response) ==
    Replace(Replace(Replace(soap_response, cfg.camera_ip, cfg.proxy_host),
                    <<":">> \o cfg.camera_port \o <<"/">>, <<":">> \o cfg.proxy_port \o <<"/">>),
            <<":">> \o cfg.camera_port \o <<"<">>, <<":">> \o cfg.proxy_port \o <<"<">>)

\* A camera response in the forwarder's hands, before the rewrite.
ToRewrite(cfg, t) == [pc |-> "response", cfg |-> cfg, response |-> t, delivered |-> <<>>]

NoRewritten ==
    [pc |-> "idle",
     cfg |-> [camera_ip |-> <<>>, camera_port |-> <<>>, proxy_host |-> <<>>, proxy_port |-> <<>>],
     response |-> <<>>, delivered |-> <<>>]

\* The forwarder rewrites the body of the camera's response.
RewriteResponse ==
    /\ rewritten.pc = "response"
    /\ rewritten' = [rewritten EXCEPT
                        !.pc = "delivered",
                        !.delivered = rewrite_response(rewritten.cfg, rewritten.response)]
    /\ UNCHANGED <<interceptor, routed, spliced, translated>>

----------------------------------------------------------------------------
(* Capability splicer: proxy_server.py *)

\* A child of Spaces: its tag and what its URI element holds.  "Generic"
\* and "Fov" are URI texts without and with TranslationSpaceFov; "absent"
\* is a child without URI element, "empty" a URI element without text.
RelativeSpace(uri) == [tag |-> "RelativePanTiltTranslationSpace", uri |-> uri]

ContinuousSpace == [tag |-> "ContinuousPanTiltVelocitySpace", uri |-> "Generic"]

FovSpace == RelativeSpace("Fov")

Children ==
    {RelativeSpace(u) : u \in {"Generic", "Fov", "absent", "empty"}} \cup {ContinuousSpace}

MaxChildren == 3

MaxSplices == 2

\* A response body: text that is no XML, XML without Spaces element, or
\* XML whose first Spaces element has the given children.  Its text is the
\* camera's, or the serialization of etree.tostring.
MkXml(text, wellformed, spaces, children) ==
    [text |-> text, wellformed |-> wellformed, spaces |-> spaces, children |-> children]

Responses ==
    {MkXml("camera", FALSE, FALSE, <<>>), MkXml("camera", TRUE, FALSE, <<>>)}
    \cup {MkXml("camera", TRUE, TRUE, c) :
             c \in UNION {[1..n -> Children] : n \in 0..MaxChildren}}

\* The fault envelope forward_request builds when the camera call raised.
ForwardedFault == MkXml("fault", TRUE, FALSE, <<>>)

\* What forward_request returns to the router: the camera's body with the
\* camera's status, or its own fault with status 500.
Forwarded ==
    {[body |-> x, status |-> c] : x \in Responses, c \in CameraStatuses}
    \cup {[body |-> ForwardedFault, status |-> 500]}

RelativeSpaces(children) ==
    {i \in DOMAIN children : children[i].tag = "RelativePanTiltTranslationSpace"}

MaxIn(S) == CHOOSE m \in S : \A n \in S : n <= m

InsertAt(children, i, c) ==
    SubSeq(children, 1, i) \o <<c>> \o SubSeq(children, i + 1, Len(children))

\* A splicer that does not look for an existing FOV space.
AddFovUnchecked(x) ==
    IF ~x.wellformed \/ ~x.spaces \/ RelativeSpaces(x.children) = {} THEN x
    ELSE IF \E i \in RelativeSpaces(x.children) : x.children[i].uri = "empty" THEN x
    ELSE MkXml("etree", TRUE, TRUE,
               InsertAt(x.children, MaxIn(RelativeSpaces(x.children)), FovSpace))

\* A splicer that appends the FOV space to the children of Spaces.
AddFovAppended(x) ==
    IF ~x.wellformed \/ ~x.spaces \/ RelativeSpaces(x.children) = {} THEN x
    ELSE IF \E i \in RelativeSpaces(x.children) : x.children[i].uri \in {"Fov", "empty"} THEN x
    ELSE MkXml("etree", TRUE, TRUE, Append(x.children, FovSpace))

\* A splicer that answers a body it cannot parse with an error text.
AddFovRaising(x) ==
    IF ~x.wellformed THEN MkXml("error", FALSE, FALSE, <<>>)
    ELSE IF ~x.spaces \/ RelativeSpaces(x.children) = {} THEN x
    ELSE IF \E i \in RelativeSpaces(x.children) : x.children[i].uri \in {"Fov", "empty"} THEN x
    ELSE MkXml("etree", TRUE, TRUE,
               InsertAt(x.children, MaxIn(RelativeSpaces(x.children)), FovSpace))

\* add_fov_to_config_options.  The scan of the existing spaces returns the
\* input at a URI holding TranslationSpaceFov and raises (the input is
\* returned by the handler) at a URI element without text.
add_fov_to_config_options(x) ==
    IF ~x.wellformed \/ ~x.spaces \/ RelativeSpaces(x.children) = {} THEN x
    ELSE IF \E i \in RelativeSpaces(x.children) : x.children[i].uri \in {"Fov", "empty"} THEN x
    ELSE MkXml("etree", TRUE, TRUE,
               InsertAt(x.children, MaxIn(RelativeSpaces(x.children)), FovSpace))

\* What the router returns to the client: a body and a status code.
NoDelivered == [body |-> MkXml("camera", FALSE, FALSE, <<>>), status |-> 0]

\* A forwarded GetConfigurationOptions response f before the splicer is
\* applied: x is its body.  results are the bodies the splicer returned so
\* far, for x and then for its own last result; delivered is what the router
\* returned for f.
ToSplice(f) ==
    [pc |-> "response", x |-> f.body, status_code |-> f.status, results |-> <<>>,
     delivered |-> NoDelivered]

NoSpliced ==
    [pc |-> "idle", x |-> MkXml("camera", FALSE, FALSE, <<>>), status_code |-> 0,
     results |-> <<>>, delivered |-> NoDelivered]

\* The router applies the splicer to the forwarded body and returns the
\* result with the forwarder's status code; then the splicer is applied to
\* what the splicer returned.
Splice ==
    /\ spliced.pc = "response"
    /\ Len(spliced.results) < MaxSplices
    /\ LET out == add_fov_to_config_options(
                      IF spliced.results = <<>> THEN spliced.x
                      ELSE spliced.results[Len(spliced.results)])
       IN  spliced' = [spliced EXCEPT
                          !.results = Append(@, out),
                          !.delivered = IF spliced.results = <<>>
                                        THEN [body |-> out, status |-> spliced.status_code]
                                        ELSE @]
    /\ UNCHANGED <<interceptor, routed, rewritten, translated>>

----------------------------------------------------------------------------
(* Request router: proxy_server.py *)

TrackedOperations ==
    {"GetStatus", "GetServiceCapabilities", "ContinuousMove", "RelativeMove",
     "AbsoluteMove", "Stop"}

Operations == TrackedOperations \cup {"GetConfigurationOptions", "GetNodes"}

\* Request bodies: text that is no XML, an envelope without Body element
\* or with an empty one, and an envelope for each operation.
Envelopes ==
    {[wellformed |-> FALSE, operation |-> "none"], [wellformed |-> TRUE, operation |-> "none"]}
    \cup {[wellformed |-> TRUE, operation |-> o] : o \in Operations}

\* parse_soap_request: (None, None) for text that is no XML, (None, root)
\* for an envelope without operation element.
parse_soap_request(envelope) ==
    IF envelope.wellformed THEN [operation |-> envelope.operation, root |-> TRUE]
    ELSE [operation |-> "none", root |-> FALSE]

RECURSIVE rstrip_s(_)
rstrip_s(service) ==
    IF Len(service) > 0 /\ service[Len(service)] = "s"
    THEN rstrip_s(SubSeq(service, 1, Len(service) - 1)) ELSE service

endswith_service(service) == Len(service) > 0 /\ service[Len(service)] = "_service"

\* A normalization without the replacement lists of the four services.
NormalizeServiceSuffixOnly(service) ==
    IF endswith_service(service) THEN service ELSE rstrip_s(service) \o <<"_service">>

\* The normalization of handle_onvif_request.
NormalizeService(service) ==
    CASE service \in {<<"ptz", "_service", "s">>, <<"ptz", "_service">>} -> PtzService
      [] service \in {<<"media", "_service", "s">>, <<"media", "_service">>} -> MediaService
      [] service \in {<<"device", "_service", "s">>, <<"device", "_service">>} -> DeviceService
      [] service \in {<<"event", "_service", "s">>, <<"event", "_service">>} -> EventsService
      [] OTHER -> IF endswith_service(service) THEN service
                  ELSE rstrip_s(service) \o <<"_service">>

\* build_fault_response.
build_fault_response(faultcode, faultstring, detail) == MkFault(faultcode, faultstring, detail)

NotHandled == [handled |-> FALSE, body |-> NoBody, status |-> 0]

\* An interceptor whose failed handler leaves the request to the forwarder.
InterceptFallsThrough(operation, outcome) ==
    IF operation \in TrackedOperations /\ ~outcome.raised
    THEN [handled |-> TRUE, body |-> MkBody("interceptor", operation, NoFault), status |-> 200]
    ELSE NotHandled

\* intercept, with its handler's outcome: (None, None) for an operation it
\* has no handler for.
Intercept(operation, outcome) ==
    IF operation \notin TrackedOperations THEN NotHandled
    ELSE IF outcome.raised
         THEN [handled |-> TRUE,
               body |-> MkBody("fault", operation,
                               build_fault_response("SOAP-ENV:Receiver",
                                                    <<"Error processing ", operation>>,
                                                    outcome.message)),
               status |-> 500]
         ELSE [handled |-> TRUE, body |-> MkBody("interceptor", operation, NoFault),
               status |-> 200]

\* A router that hands every request with an operation to the interceptor.
HandedToInterceptorAnyService(normalized_service, operation) == operation # "none"

\* The test of handle_onvif_request before it calls intercept.
HandedToInterceptor(normalized_service, operation) ==
    normalized_service = PtzService /\ operation # "none"

\* A request the router has received: its service path, its body, and what
\* the interceptor's handler and the camera will do if they are called.
Received(service, envelope, h, f) ==
    [pc |-> "received", service |-> service, envelope |-> envelope, h |-> h, f |-> f,
     normalized_service |-> <<>>, operation |-> "none", intercepted |-> FALSE,
     answer |-> NotHandled, forwarded |-> 0, url |-> <<>>, fov |-> FALSE,
     body |-> NoBody, status |-> 0]

\* What the handler of an operation does if it is called: it returns its
\* response, or raises.  _handle_get_service_capabilities only builds a
\* fixed response, and an operation without handler has nothing to raise.
HandlerOutcomes(operation) ==
    {[raised |-> FALSE, message |-> "none"]}
    \cup IF operation \in TrackedOperations \ {"GetServiceCapabilities"}
         THEN {[raised |-> TRUE, message |-> m] : m \in ExceptionMessages} ELSE {}

Requests ==
    UNION {{Received(service, envelope, h, f) :
               service \in Services, h \in HandlerOutcomes(envelope.operation),
               f \in ForwardOutcomes} : envelope \in Envelopes}

NoRouted ==
    [Received(<<>>, [wellformed |-> FALSE, operation |-> "none"],
              [raised |-> FALSE, message |-> "none"], NoOutcome) EXCEPT !.pc = "idle"]

\* handle_onvif_request for the request r.
Route(r) ==
    LET parsed == parse_soap_request(r.envelope)
        normalized_service == NormalizeService(r.service)
        intercepted == HandedToInterceptor(normalized_service, parsed.operation)
        answer == IF intercepted THEN Intercept(parsed.operation, r.h) ELSE NotHandled
        sent == ForwardRequest(normalized_service, r.f)
        base == [r EXCEPT !.pc = "answered",
                          !.normalized_service = normalized_service,
                          !.operation = parsed.operation,
                          !.intercepted = intercepted,
                          !.answer = answer]
    IN IF answer.handled
       THEN [base EXCEPT !.body = answer.body, !.status = answer.status]
       ELSE [base EXCEPT !.forwarded = 1, !.url = sent.url,
                         !.fov = (normalized_service = PtzService
                                     /\ parsed.operation = "GetConfigurationOptions"),
                         !.body = sent.body, !.status = sent.status]

HandleOnvifRequest ==
    /\ routed.pc = "received"
    /\ routed' = Route(routed)
    /\ UNCHANGED <<interceptor, spliced, rewritten, translated>>

----------------------------------------------------------------------------
(* Specification *)

TrackerInit ==
    /\ native_status_support \in BOOLEAN
    /\ status = [a \in Axes |-> "IDLE"]
    /\ estimated_position = [ptx |-> 0, pty |-> 0, zx |-> 0]
    /\ stop_timers = [a \in Axes |-> NoTimer]
    /\ detached_timers = {}
    /\ wk = [w \in Workers |-> IdleWorker]
    /\ followups = <<>>
    /\ ncmd = 0
    /\ cleaned = FALSE

Init ==
    /\ TrackerInit
    /\ routed = NoRouted
    /\ spliced = NoSpliced
    /\ rewritten = NoRewritten
    /\ translated = NoTranslated

Next ==
    \/ \E w \in DOMAIN wk : HandleGetServiceCapabilities(w)
    \/ \E w \in DOMAIN wk : HandleGetStatus(w)
    \/ \E w \in DOMAIN wk : HandleContinuousMove(w)
    \/ \E w \in DOMAIN wk : HandleRelativeMove(w)
    \/ \E w \in DOMAIN wk : HandleAbsoluteMove(w)
    \/ \E w \in DOMAIN wk : HandleStop(w)
    \/ \E w \in DOMAIN wk : CallReturns(w)
    \/ \E w \in DOMAIN wk : CallRaises(w)
    \/ \E w \in DOMAIN wk : TrackStep(w)
    \/ \E w \in DOMAIN wk : Return(w)
    \/ \E i \in DOMAIN followups : FollowUpWakes(i)
    \/ \E i \in DOMAIN followups : FollowUpCallReturns(i)
    \/ \E i \in DOMAIN followups : FollowUpCallRaises(i)
    \/ \E i \in DOMAIN followups : FollowUpStep(i)
    \/ \E a \in Axes : TimerFires(a)
    \/ Tick

Spec == Init /\ [][Next]_vars

\* Two handler threads (Flask, threaded=True), and the shutdown.
ConcurrentWorkers == {"w1", "w2"}

ConcurrentInit ==
    /\ native_status_support = FALSE
    /\ status = [a \in Axes |-> "IDLE"]
    /\ estimated_position = [ptx |-> 0, pty |-> 0, zx |-> 0]
    /\ stop_timers = [a \in Axes |-> NoTimer]
    /\ detached_timers = {}
    /\ wk = [w \in ConcurrentWorkers |-> IdleWorker]
    /\ followups = <<>>
    /\ ncmd = 0
    /\ cleaned = FALSE
    /\ routed = NoRouted
    /\ spliced = NoSpliced
    /\ rewritten = NoRewritten
    /\ translated = NoTranslated

ConcurrentNext ==
    \/ Next
    \/ \E t \in detached_timers : DetachedTimerFires(t)
    \/ Cleanup

ConcurrentSpec == ConcurrentInit /\ [][ConcurrentNext]_vars

\* The request router, for every request it can receive.
RouterInit ==
    /\ TrackerInit
    /\ routed \in Requests
    /\ spliced = NoSpliced
    /\ rewritten = NoRewritten
    /\ translated = NoTranslated

RouterNext == HandleOnvifRequest

RouterSpec == RouterInit /\ [][RouterNext]_vars

\* The capability splicer, for every response it can be given.
SplicerInit ==
    /\ TrackerInit
    /\ routed = NoRouted
    /\ spliced \in {ToSplice(f) : f \in Forwarded}
    /\ rewritten = NoRewritten
    /\ translated = NoTranslated

SplicerNext == Splice

SplicerSpec == SplicerInit /\ [][SplicerNext]_vars

\* The inbound address rewrite, for every configuration and response text.
RewriteInit ==
    /\ TrackerInit
    /\ routed = NoRouted
    /\ spliced = NoSpliced
    /\ rewritten \in {ToRewrite(cfg, t) : cfg \in Addresses, t \in Texts}
    /\ translated = NoTranslated

RewriteNext == RewriteResponse

RewriteSpec == RewriteInit /\ [][RewriteNext]_vars

\* The translation of a Pan/Tilt RelativeMove, for every translation.
TranslateInit ==
    /\ TrackerInit
    /\ routed = NoRouted
    /\ spliced = NoSpliced
    /\ rewritten = NoRewritten
    /\ translated \in {ToTranslate(tx, ty) : tx \in Translations, ty \in Translations}

TranslateNext == TranslateRelativeMove

TranslateSpec == TranslateInit /\ [][TranslateNext]_vars

\* handle_onvif_request has called intercept with operation op, and the
\* handler of op has not been entered yet.
InterceptCalled(op) ==
    /\ routed.pc = "answered"
    /\ routed.intercepted
    /\ routed.operation = op
    /\ \A w \in DOMAIN wk : wk[w].req = NoReq

\* One request from the router to the tracker, for every request: the
\* handlers of the interceptor run for the operation the router handed over.
DispatchInit ==
    /\ TrackerInit
    /\ routed \in Requests
    /\ spliced = NoSpliced
    /\ rewritten = NoRewritten
    /\ translated = NoTranslated

DispatchNext ==
    \/ HandleOnvifRequest
    \/ InterceptCalled("GetServiceCapabilities") /\ \E w \in DOMAIN wk : HandleGetServiceCapabilities(w)
    \/ InterceptCalled("GetStatus") /\ \E w \in DOMAIN wk : HandleGetStatus(w)
    \/ InterceptCalled("ContinuousMove") /\ \E w \in DOMAIN wk : HandleContinuousMove(w)
    \/ InterceptCalled("RelativeMove") /\ \E w \in DOMAIN wk : HandleRelativeMove(w)
    \/ InterceptCalled("AbsoluteMove") /\ \E w \in DOMAIN wk : HandleAbsoluteMove(w)
    \/ InterceptCalled("Stop") /\ \E w \in DOMAIN wk : HandleStop(w)
    \/ \E w \in DOMAIN wk : CallReturns(w)
    \/ \E w \in DOMAIN wk : CallRaises(w)
    \/ \E w \in DOMAIN wk : TrackStep(w)
    \/ \E w \in DOMAIN wk : Return(w)
    \/ \E i \in DOMAIN followups : FollowUpWakes(i)
    \/ \E i \in DOMAIN followups : FollowUpCallReturns(i)
    \/ \E i \in DOMAIN followups : FollowUpCallRaises(i)
    \/ \E i \in DOMAIN followups : FollowUpStep(i)
    \/ \E a \in Axes : TimerFires(a)
    \/ Tick

DispatchSpec == DispatchInit /\ [][DispatchNext]_vars

----------------------------------------------------------------------------
(* Properties *)

\* Every handler has answered, every stop_movement thread has ended and no
\* auto-IDLE timer is pending: all durations have elapsed.
Quiescent ==
    /\ \A w \in DOMAIN wk : wk[w].pc = "idle"
    /\ \A i \in DOMAIN followups : followups[i].pc = "done"
    /\ \A a \in Axes : stop_timers[a].state # "live"
    /\ detached_timers = {}

\* Worker w has answered a request of operation op with status 200.
Answered(w, op) ==
    /\ wk[w].pc = "idle"
    /\ wk[w].req.op = op
    /\ wk[w].resp.code = 200

\* Every GetStatus answered from the tracker now reports p and z.
TrackerReports(p, z) ==
    \A o \in GetStatusOutcomes :
        o.snap.src = "tracker" => (o.snap.pt = p /\ o.snap.zoom = z)

\* C1: without native status support, once every move command has been
\* answered, every follow-up has run and no auto-IDLE timer is pending (all
\* durations have elapsed), GetStatus reports PanTilt = IDLE and Zoom = IDLE.
C1_IdleOnceDurationsElapsed ==
    (~native_status_support /\ Quiescent) =>
        \A o \in GetStatusOutcomes : o.snap.pt = "IDLE" /\ o.snap.zoom = "IDLE"

\* C2: whenever a ContinuousMove whose velocity is zero or absent on each axis
\* has been answered with status 200, both axes are IDLE.
C2_ZeroVelocityIdlesBothAxes ==
    \A w \in DOMAIN wk :
        (Answered(w, "ContinuousMove") /\ IsStop(wk[w].req)) =>
            (status["pantilt"] = "IDLE" /\ status["zoom"] = "IDLE")

\* C2 happens: a zero-velocity ContinuousMove was answered after it cancelled
\* the pending timers of two axes that were MOVING, no follow-up being involved.
C2_Witness ==
    \E w \in DOMAIN wk :
        /\ Answered(w, "ContinuousMove")
        /\ IsStop(wk[w].req)
        /\ followups = <<>>
        /\ \A a \in Axes : stop_timers[a] = CancelledTimer

C4_MovingUntilFollowUp ==
    ~native_status_support =>
        \A i \in DOMAIN followups :
            (/\ followups[i].pc = "sleep"
             /\ followups[i].quiet
             /\ ~IsStop(followups[i].start)) =>
                \A o \in GetStatusOutcomes : o.snap.pt = "MOVING"

\* C5: at the step where a synthesized Pan/Tilt RelativeMove is answered, the
\* answer is the RelativeMoveResponse with status 200, the only camera call
\* made so far is the first ContinuousMove, and the follow-up thread has just
\* been started and is asleep: its ContinuousMove is still to come.
C5_ResponseDoesNotWaitForFollowUp ==
    [][\A w \in DOMAIN wk :
          (/\ wk[w].pc = "track" /\ wk'[w].pc = "idle"
           /\ wk[w].req.op = "RelativeMove" /\ wk[w].req.pt.has) =>
              /\ wk'[w].resp = BuildSimpleResponse("RelativeMove")
              /\ wk'[w].calls = <<StartParams(wk[w].req)>>
              /\ Len(followups') = Len(followups) + 1
              /\ followups'[Len(followups')].pc = "sleep"
              /\ followups'[Len(followups')].rem > 0
              /\ followups'[Len(followups')].start = StartParams(wk[w].req)
      ]_vars

\* C5 happens: a GetStatus was handled after the RelativeMoveResponse and
\* before the follow-up was issued, and reported the tracker's MOVING.
C5_Witness ==
    \E w \in DOMAIN wk : \E i \in DOMAIN followups :
        /\ Answered(w, "GetStatus")
        /\ wk[w].resp.snap.src = "tracker"
        /\ wk[w].resp.snap.pt = "MOVING"
        /\ followups[i].pc = "sleep"
        /\ followups[i].quiet

\* C6 as stated: whenever GetStatus is handled no camera call is made and the
\* response is built from the tracker's snapshot.
C6_GetStatusNeverCallsCamera ==
    \A w \in DOMAIN wk :
        wk[w].req.op = "GetStatus" =>
            (wk[w].calls = <<>> /\ wk[w].resp.snap.src = "tracker")

\* C6, amended: at the step that handles GetStatus the tracker is left as it
\* is and the reply is a GetStatusResponse with status 200; when no native
\* status support was detected at construction no camera call is made and the
\* response carries the tracker's snapshot of that instant; when it was
\* detected the camera's GetStatus is called once and the response carries
\* the camera's answer or, that call failing, the tracker's snapshot.
C6_GetStatusFromTrackerWithoutNativeSupport ==
    [][\A w \in DOMAIN wk :
          (wk'[w] # wk[w] /\ wk'[w].req.op = "GetStatus") =>
              /\ tracker' = tracker
              /\ wk'[w].pc = "idle"
              /\ wk'[w].resp.code = 200 /\ wk'[w].resp.body = "GetStatusResponse"
              /\ ~native_status_support =>
                    /\ wk'[w].calls = <<>>
                    /\ wk'[w].resp.snap = Snapshot
              /\ native_status_support =>
                    /\ wk'[w].calls = <<MkCall("GetStatus", NoPanTilt, NoZoom, NoDuration)>>
                    /\ wk'[w].resp.snap \in CameraSnapshots \cup {Snapshot}
      ]_vars

\* C6 happens: without native support and with no follow-up involved, a
\* GetStatus was answered from the tracker, without a camera call, with
\* PanTilt MOVING at an estimated position that a move has changed.
C6_Witness ==
    /\ ~native_status_support
    /\ followups = <<>>
    /\ \E w \in DOMAIN wk :
          /\ Answered(w, "GetStatus")
          /\ wk[w].calls = <<>>
          /\ wk[w].resp.snap.src = "tracker"
          /\ wk[w].resp.snap.pt = "MOVING"
          /\ wk[w].resp.snap.ptx # 0

\* C7: at the step that handles GetServiceCapabilities the reply is the canned
\* GetServiceCapabilitiesResponse with MoveStatus true and status 200, no
\* camera call is made and the tracker is left as it is.
C7_CannedServiceCapabilities ==
    [][\A w \in DOMAIN wk :
          (wk'[w] # wk[w] /\ wk'[w].req.op = "GetServiceCapabilities") =>
              /\ wk'[w].pc = "idle"
              /\ wk'[w].resp.code = 200
              /\ wk'[w].resp.body = "GetServiceCapabilitiesResponse"
              /\ wk'[w].resp.caps.MoveStatus
              /\ wk'[w].calls = <<>>
              /\ tracker' = tracker
      ]_vars

\* C7 happens: GetServiceCapabilities was answered while the tracker had an
\* axis MOVING with its timer pending.
C7_Witness ==
    \E w \in DOMAIN wk :
        /\ Answered(w, "GetServiceCapabilities")
        /\ wk[w].resp.caps.MoveStatus
        /\ status["zoom"] = "MOVING"
        /\ stop_timers["zoom"].state = "live"

\* C8: in every reachable state the estimated position has pt_x and pt_y in
\* [-1.0, 1.0] and zoom in [0.0, 1.0].
C8_PositionWithinRanges ==
    /\ estimated_position.ptx >= PanTiltMin /\ estimated_position.ptx <= PanTiltMax
    /\ estimated_position.pty >= PanTiltMin /\ estimated_position.pty <= PanTiltMax
    /\ estimated_position.zx >= ZoomMin /\ estimated_position.zx <= ZoomMax

\* C9: once an AbsoluteMove with position p has been answered with status 200,
\* the tracker snapshot's position equals p clamped to the position ranges, on
\* each component that p carries.
C9_AbsoluteMovePositionIsClamped ==
    \A w \in DOMAIN wk :
        Answered(w, "AbsoluteMove") =>
            /\ wk[w].req.pt.has =>
                  /\ Snapshot.ptx = Clamp(wk[w].req.pt.x, PanTiltMin, PanTiltMax)
                  /\ Snapshot.pty = Clamp(wk[w].req.pt.y, PanTiltMin, PanTiltMax)
            /\ wk[w].req.zoom.has =>
                  Snapshot.zx = Clamp(wk[w].req.zoom.x, ZoomMin, ZoomMax)

\* No stop_movement thread can have run since the handler's camera call
\* returned: each one is still asleep with time left.
FollowUpsAsleep ==
    \A i \in DOMAIN followups : followups[i].pc = "sleep" /\ followups[i].rem > 0

\* The Position / Velocity / Translation of call c carries axis a.
Carries(c, a) == IF a = "pantilt" THEN c.pt.has ELSE c.zoom.has

CarriesMovement(c, a) ==
    IF a = "pantilt" THEN c.pt.has /\ (c.pt.x # 0 \/ c.pt.y # 0)
    ELSE c.zoom.has /\ c.zoom.x # 0

\* C11: a step of the tracking of a ContinuousMove (a client's, or the one
\* synthesized for a Pan/Tilt RelativeMove) takes an axis from IDLE to MOVING
\* only if the ContinuousMove carries a non-zero velocity for that axis.
C11_MovingOnlyOnNonZeroVelocity ==
    [][\A w \in DOMAIN wk :
          (/\ wk[w].pc = "track"
           /\ wk[w].call.m = "ContinuousMove"
           /\ wk'[w] # wk[w]) =>
              \A a \in Axes :
                  (status[a] = "IDLE" /\ status'[a] = "MOVING") =>
                      CarriesMovement(wk[w].call, a)
      ]_vars

ZoomOnly(r) == r.op = "RelativeMove" /\ ~r.pt.has /\ r.zoom.has

\* C20: in every step of the handling of a RelativeMove whose Translation has
\* Zoom and no PanTilt, the camera calls made for it are exactly one
\* RelativeMove carrying the request's own Translation (so no ContinuousMove),
\* and no stop_movement thread is started.
C20_ZoomRelativeMovePassedThrough ==
    [][\A w \in DOMAIN wk :
          (ZoomOnly(wk'[w].req) /\ wk'[w] # wk[w]) =>
              /\ wk'[w].calls = <<MkCall("RelativeMove", wk'[w].req.pt,
                                         wk'[w].req.zoom, NoDuration)>>
              /\ Len(followups') = Len(followups)
      ]_vars

\* C20 happens: a Zoom-only RelativeMove was answered with status 200; Zoom is
\* MOVING with the 2.0 s timer, the zoom estimate moved by the translation,
\* and no stop_movement thread exists.
C20_Witness ==
    \E w \in DOMAIN wk :
        /\ Answered(w, "RelativeMove")
        /\ ZoomOnly(wk[w].req)
        /\ followups = <<>>
        /\ status["zoom"] = "MOVING"
        /\ stop_timers["zoom"] = LiveTimer(RelativeMoveDuration)
        /\ estimated_position.zx = wk[w].req.zoom.x

----------------------------------------------------------------------------
(* Properties of the request router: RouterSpec *)

\* The router has answered the request it received.
Routed == routed.pc = "answered"

\* C13: a request is handed to the interceptor exactly if its normalized
\* service is ptz_service and its parsed operation is not null.  If the
\* interceptor returns a response, that response and its status are what the
\* client gets and the forwarder is not called; otherwise, which includes
\* GetConfigurationOptions and operations without handler on the PTZ
\* service, the forwarder is called exactly once, for the normalized service.
C13_InterceptedIffPtzOperation ==
    Routed =>
        /\ routed.intercepted <=>
              /\ NormalizeService(routed.service) = PtzService
              /\ parse_soap_request(routed.envelope).operation # "none"
        /\ ~routed.intercepted => ~routed.answer.handled
        /\ routed.answer.handled =>
              /\ routed.body = routed.answer.body
              /\ routed.status = routed.answer.status
              /\ routed.forwarded = 0
        /\ ~routed.answer.handled =>
              /\ routed.forwarded = 1
              /\ routed.url = NormalizeService(routed.service)
        /\ (routed.intercepted /\ routed.operation \notin TrackedOperations) =>
              routed.forwarded = 1

\* C13 happens: GetConfigurationOptions on the PTZ service was handed to the
\* interceptor, which returned no response, and was forwarded once.
C13_Witness ==
    /\ Routed
    /\ routed.service = <<"ptz", "_service">>
    /\ routed.operation = "GetConfigurationOptions"
    /\ routed.intercepted /\ ~routed.answer.handled
    /\ routed.forwarded = 1 /\ routed.body.kind = "camera" /\ routed.status = 200

\* C14: a request whose body is no XML is answered with status 500 and a
\* Receiver fault "Malformed SOAP", and the forwarder is not called for it.
C14_MalformedEnvelopeIsRefused ==
    (Routed /\ ~routed.envelope.wellformed) =>
        /\ routed.status = 500
        /\ routed.body.fault.value = "SOAP-ENV:Receiver"
        /\ routed.body.fault.reason = <<"Malformed SOAP">>
        /\ routed.forwarded = 0

\* C15: when the POST of a forwarded request raises, the forwarder returns
\* status 500 and a fault body with Code/Value SOAP-ENV:Receiver, whose
\* Reason is "Request timeout" for a Timeout, "Connection error to camera"
\* for a ConnectionError and the exception's message for any other
\* exception; the router gets that pair as the forwarder's return value.
C15_ForwarderFailureIsFault ==
    (Routed /\ routed.forwarded = 1 /\ routed.f.kind # "response") =>
        /\ routed.status = 500
        /\ routed.body.kind = "fault"
        /\ routed.body.fault.value = "SOAP-ENV:Receiver"
        /\ routed.f.kind = "Timeout" => routed.body.fault.reason = <<"Request timeout">>
        /\ routed.f.kind = "ConnectionError" =>
              routed.body.fault.reason = <<"Connection error to camera">>
        /\ routed.f.kind = "Exception" => routed.body.fault.reason = <<routed.f.message>>

\* C15 happens: the POST of a forwarded media request timed out and the
\* client got the "Request timeout" fault with status 500.
C15_Witness ==
    /\ Routed
    /\ routed.normalized_service = MediaService
    /\ routed.forwarded = 1
    /\ routed.f.kind = "Timeout"
    /\ routed.status = 500
    /\ routed.body.fault = TimeoutFault

\* C16: when the handler of an intercepted operation raises, the client gets
\* status 500 and a fault with Code/Value SOAP-ENV:Receiver that carries the
\* exception's message, and the forwarder is not called for the request.
C16_HandlerErrorIsFault ==
    (Routed /\ routed.intercepted /\ routed.operation \in TrackedOperations /\ routed.h.raised) =>
        /\ routed.status = 500
        /\ routed.body.kind = "fault"
        /\ routed.body.fault.value = "SOAP-ENV:Receiver"
        /\ routed.body.fault.detail = routed.h.message
        /\ routed.forwarded = 0

\* C16 happens: the camera call of a ContinuousMove failed; the client got
\* the fault with the exception's message and nothing was forwarded.
C16_Witness ==
    /\ Routed
    /\ routed.operation = "ContinuousMove"
    /\ routed.intercepted
    /\ routed.h.raised
    /\ routed.status = 500
    /\ routed.body.fault.detail = "Max retries exceeded"
    /\ routed.forwarded = 0

\* The names of the five catalog services.
CatalogNames == {<<"device">>, <<"media">>, <<"ptz">>, <<"imaging">>, <<"event", "s">>}

\* C18: ptz is normalized to ptz_service and event to events_service, and
\* the bare, plural and _service-suffixed forms of the name of each catalog
\* service are normalized to that service's key in the catalog.
C18_NormalizesToCatalogKey ==
    Routed =>
        /\ routed.service = <<"ptz">> => routed.normalized_service = PtzService
        /\ routed.service = <<"event">> => routed.normalized_service = EventsService
        /\ \A name \in CatalogNames :
              routed.service \in {name, name \o <<"s">>, name \o <<"_service">>} =>
                  /\ routed.normalized_service = name \o <<"_service">>
                  /\ routed.normalized_service \in ServiceCatalog

----------------------------------------------------------------------------
(* Properties of the capability splicer: SplicerSpec *)

\* The RelativePanTiltTranslationSpace children of x, in document order.
RelativeChildren(x) ==
    SelectSeq(x.children, LAMBDA c : c.tag = "RelativePanTiltTranslationSpace")

\* C17: the splicer applied to its own result returns that result, and for a
\* camera response whose only RelativePanTiltTranslationSpace is a Generic
\* one, the result of every call has exactly two such children: the Generic
\* one, then the FOV one.
C17_SpliceIsIdempotent ==
    /\ \A i \in 2..Len(spliced.results) : spliced.results[i] = spliced.results[i - 1]
    /\ (spliced.x.spaces /\ RelativeChildren(spliced.x) = <<RelativeSpace("Generic")>>) =>
          \A i \in 1..Len(spliced.results) :
              RelativeChildren(spliced.results[i]) = <<RelativeSpace("Generic"), FovSpace>>

\* C17 happens: the splicer added the FOV space to a response with one
\* Generic space, and applied to that result returned the same body.
C17_Witness ==
    /\ spliced.x.children = <<ContinuousSpace, RelativeSpace("Generic")>>
    /\ Len(spliced.results) = 2
    /\ spliced.results[1].children = <<ContinuousSpace, RelativeSpace("Generic"), FovSpace>>
    /\ spliced.results[2] = spliced.results[1]

\* The splicer has been applied to the camera's response and has changed it.
FovAdded == spliced.results # <<>> /\ spliced.results[1] # spliced.x

\* The positions of the FOV spaces among the children of x.
FovChildren(x) ==
    {i \in DOMAIN x.children :
        x.children[i].tag = "RelativePanTiltTranslationSpace" /\ x.children[i].uri = "Fov"}

\* C28: when the splicer adds the FOV space, the new child of Spaces stands
\* immediately after the last RelativePanTiltTranslationSpace of the input,
\* the children of the input are all there in their order, before and after
\* it, and the result has exactly one FOV space.
C28_FovAfterLastRelativeSpace ==
    FovAdded =>
        LET old == spliced.x.children
            new == spliced.results[1].children
        IN  /\ Len(new) = Len(old) + 1
            /\ \E k \in DOMAIN old :
                  /\ old[k].tag = "RelativePanTiltTranslationSpace"
                  /\ \A j \in DOMAIN old : j > k => old[j].tag # "RelativePanTiltTranslationSpace"
                  /\ new[k + 1] = FovSpace
                  /\ \A j \in DOMAIN old : j <= k => new[j] = old[j]
                  /\ \A j \in DOMAIN old : j > k => new[j + 1] = old[j]
            /\ Cardinality(FovChildren(spliced.results[1])) = 1

\* The FOV space has been inserted between the last of two
\* RelativePanTiltTranslationSpace children and a child that follows them.
C28_Witness ==
    /\ spliced.x.children = <<RelativeSpace("Generic"), RelativeSpace("absent"), ContinuousSpace>>
    /\ spliced.results # <<>>
    /\ spliced.results[1].children =
          <<RelativeSpace("Generic"), RelativeSpace("absent"), FovSpace, ContinuousSpace>>

\* The splicer cannot add the FOV space to x: x is no XML, has no Spaces
\* element (a fault envelope has none), or the scan of its spaces raises at
\* a URI element without text.
NotSpliceable(x) ==
    \/ ~x.wellformed
    \/ ~x.spaces
    \/ \E i \in DOMAIN x.children :
          x.children[i].tag = "RelativePanTiltTranslationSpace" /\ x.children[i].uri = "empty"

\* C29: the router returns what the splicer returned, with the status code
\* of the forwarder; and for a body without Spaces element, or one whose
\* parsing or scan raises, a forwarded fault included, that is the forwarded
\* body itself.
C29_SplicerNeverFailsTheCall ==
    spliced.results # <<>> =>
        /\ spliced.delivered.status = spliced.status_code
        /\ spliced.delivered.body = spliced.results[1]
        /\ NotSpliceable(spliced.x) => spliced.delivered.body = spliced.x

\* The forwarder's fault for a camera that did not answer has been returned
\* as it was, with status 500.
C29_Witness ==
    /\ spliced.x = ForwardedFault
    /\ spliced.delivered = [body |-> ForwardedFault, status |-> 500]

----------------------------------------------------------------------------
(* Properties of the address rewrite: RewriteSpec *)

\* Camera and proxy have different ports, and the camera host is no part of
\* the proxy host.
DistinctAddresses(cfg) ==
    /\ cfg.camera_port # cfg.proxy_port
    /\ ~Occurs(cfg.camera_ip, cfg.proxy_host)

\* C19: the body delivered for a camera response has no occurrence of the
\* camera host and none of the camera port, and it has the proxy's host and
\* port where the response had the camera's.
C19_DeliveredBodyHasNoCameraAddress ==
    (rewritten.pc = "delivered" /\ DistinctAddresses(rewritten.cfg)) =>
        /\ ~Occurs(rewritten.cfg.camera_ip, rewritten.delivered)
        /\ ~Occurs(<<":">> \o rewritten.cfg.camera_port, rewritten.delivered)
        /\ Occurs(rewritten.cfg.camera_ip \o <<":">> \o rewritten.cfg.camera_port,
                  rewritten.response) =>
              Occurs(rewritten.cfg.proxy_host \o <<":">> \o rewritten.cfg.proxy_port,
                     rewritten.delivered)

----------------------------------------------------------------------------
(* Properties of concurrently handled commands: ConcurrentSpec *)

\* The started timers of axis a that have neither fired nor been cancelled.
LiveTimers(a) ==
    (IF stop_timers[a].state = "live" THEN 1 ELSE 0)
    + Cardinality({t \in detached_timers : t.axis = a})

\* C21: in every reachable state each axis has at most one live auto-IDLE
\* timer.
C21_AtMostOneLiveTimer == \A a \in Axes : LiveTimers(a) <= 1

\* C22: a timer that a later installation for its axis has replaced in
\* _stop_timers never moves the axis from MOVING to IDLE while the timer
\* installed last is still running.
C22_ReplacedTimerNeverIdlesAxis ==
    [][\A t \in detached_timers :
          (/\ t.rem = 0 /\ t \notin detached_timers'
           /\ stop_timers[t.axis].state = "live" /\ stop_timers[t.axis].rem > 0) =>
              ~(status[t.axis] = "MOVING" /\ status'[t.axis] = "IDLE")
      ]_vars

\* C23: once the handler threads have finished, with no RelativeMove
\* synthesized and the server running, an axis that is MOVING has a live
\* auto-IDLE timer.
C23_MovingAxisHasLiveTimer ==
    ((\A w \in DOMAIN wk : wk[w].pc = "idle") /\ followups = <<>> /\ ~cleaned) =>
        \A a \in Axes : status[a] = "MOVING" => LiveTimers(a) >= 1

\* C30: when cleanup returns, no started timer of either axis is live.
C30_NoLiveTimerAfterCleanup ==
    [][(~cleaned /\ cleaned') =>
          /\ \A a \in Axes : stop_timers'[a].state # "live"
          /\ detached_timers' = {}
      ]_vars

\* A zero-velocity ContinuousMove completes in this step: the one a handler
\* issued for a Stop or for a ContinuousMove without movement, or the one of
\* a stop_movement thread.
StopCompletes ==
    \/ \E w \in DOMAIN wk :
          /\ wk[w].pc = "track" /\ wk'[w].pc = "idle"
          /\ wk[w].call.m = "ContinuousMove" /\ IsStop(wk[w].call)
    \/ \E i \in DOMAIN followups :
          followups[i].pc = "track" /\ followups'[i].pc = "done"

\* C25: when a Stop or a zero-velocity ContinuousMove completes, no timer
\* that was installed earlier and has since been replaced in _stop_timers is
\* still running, so none fires afterwards.
C25_StopLeavesNoEarlierTimer ==
    [][StopCompletes => detached_timers' = {}]_vars

----------------------------------------------------------------------------
(* Properties of failed camera calls: Spec *)

MoveOperations == {"ContinuousMove", "RelativeMove", "AbsoluteMove", "Stop"}

\* C24: a handler changes the tracker only after its camera call has returned:
\* taking a move command and answering it with a fault because the camera call
\* raised both leave the statuses, the estimated position and the timers as
\* they are.
C24_FailedCallLeavesTracker ==
    [][\A w \in DOMAIN wk :
          (/\ wk'[w] # wk[w]
           /\ wk'[w].req.op \in MoveOperations
           /\ \/ wk[w].pc = "idle"
              \/ wk[w].pc = "call" /\ wk'[w].resp.code = 500) =>
              tracker' = tracker
      ]_vars

\* A Stop has been answered with a fault while Pan/Tilt was moving: the axis
\* is still MOVING and its timer still runs.
C24_Witness ==
    \E w \in DOMAIN wk :
        /\ wk[w].pc = "idle" /\ wk[w].req.op = "Stop" /\ wk[w].resp.code = 500
        /\ status["pantilt"] = "MOVING"
        /\ stop_timers["pantilt"].state = "live"

\* The zero-velocity ContinuousMove of stop_movement thread i raises in this
\* step.
FollowUpFails(i) == followups[i].pc = "call" /\ followups'[i].result = "failed"

\* C26: when the zero-velocity ContinuousMove of a stop_movement thread raises,
\* only that thread ends: the handler threads and their answers, the statuses,
\* the estimated position and the timers are as before; when no other move
\* command and no other stop_movement thread came after the RelativeMove, a
\* Pan/Tilt axis that it left MOVING still has its running timer; and that
\* timer sets the axis to IDLE when it fires.
C26_FailedFollowUpIsConfined ==
    [][/\ \A i \in DOMAIN followups :
             FollowUpFails(i) =>
                 /\ tracker' = tracker
                 /\ wk' = wk
                 /\ \A j \in DOMAIN followups : j # i => followups'[j] = followups[j]
                 /\ (/\ followups[i].quiet /\ Len(followups) = 1
                     /\ status["pantilt"] = "MOVING") =>
                        stop_timers["pantilt"].state = "live"
       /\ ((\E i \in DOMAIN followups : followups[i].result = "failed")
             /\ stop_timers["pantilt"].state = "live"
             /\ stop_timers'["pantilt"].state = "fired") =>
                 status'["pantilt"] = "IDLE"
      ]_vars

\* After the stop_movement thread of a RelativeMove has failed, the timer of
\* the first ContinuousMove has fired, Pan/Tilt is IDLE and a GetStatus has
\* been answered from the tracker with both axes IDLE.
C26_Witness ==
    /\ \E i \in DOMAIN followups : followups[i].result = "failed"
    /\ ncmd = 1
    /\ status["pantilt"] = "IDLE"
    /\ stop_timers["pantilt"].state = "fired"
    /\ \E w \in DOMAIN wk :
          /\ wk[w].pc = "idle" /\ wk[w].req.op = "GetStatus"
          /\ wk[w].resp.code = 200 /\ wk[w].resp.snap.pt = "IDLE"

----------------------------------------------------------------------------
(* Properties of the translated RelativeMove: TranslateSpec *)

Sign(n) == IF n > 0 THEN 1 ELSE IF n < 0 THEN -1 ELSE 0

\* C27: the synthesized velocity of a Pan/Tilt RelativeMove (tx, ty) is
\* (sign(tx)*0.5, sign(ty)*0.5), its follow-up delay is |tx|*10 + |ty|*10
\* seconds limited to [0.3, 5.0], and the delay does not exceed the auto-IDLE
\* duration of the first ContinuousMove, which is the 5.0 s default.
C27_VelocityAndDelay ==
    translated.pc = "started" =>
        /\ translated.start.pt = PanTiltOf(Sign(translated.tx) * 50, Sign(translated.ty) * 50)
        /\ translated.delay = Clamp(Abs(translated.tx) + Abs(translated.ty), 3, 50)
        /\ translated.delay >= 3 /\ translated.delay <= 50
        /\ MoveDuration(translated.start) = 50
        /\ translated.delay <= MoveDuration(translated.start)

\* A translation to the left and up whose duration is cut to 5.0 s.
C27_Witness ==
    /\ translated.pc = "started"
    /\ translated.tx < 0 /\ translated.ty > 0
    /\ Abs(translated.tx) + Abs(translated.ty) > 50
    /\ translated.delay = 50

----------------------------------------------------------------------------
(* Properties of the timers of moving axes: Spec *)

\* The duration the timer of a movement started by the wrapper call c is to
\* have, in tenths of a second.
TimerDuration(c) ==
    CASE c.m = "ContinuousMove" -> IF c.timeout.has /\ c.timeout.v > 0 THEN c.timeout.v ELSE 50
      [] c.m = "RelativeMove"   -> 20
      [] c.m = "AbsoluteMove"   -> 30

\* Handler thread w writes MOVING for an axis in this step.
SetsMoving(w) ==
    /\ wk[w].pc = "track" /\ wk[w].todo # <<>>
    /\ wk'[w].todo = Tail(wk[w].todo)
    /\ Head(wk[w].todo).k = "set" /\ Head(wk[w].todo).s = "MOVING"

\* Handler thread w starts and stores a timer in this step.
Installs(w) ==
    /\ wk[w].pc = "track" /\ wk[w].todo # <<>>
    /\ wk'[w].todo = Tail(wk[w].todo)
    /\ Head(wk[w].todo).k = "install"

\* C31: a handler that writes MOVING for an axis goes on to install a timer
\* for that axis whose duration is positive: the Timeout of a ContinuousMove
\* when it is positive and 5.0 s otherwise, 2.0 s for a RelativeMove, 3.0 s
\* for an AbsoluteMove; the installed timer runs for that duration; and with
\* the handler at rest a MOVING axis has had a timer installed.
C31_MovingInstallsPositiveTimer ==
    [][/\ \A w \in DOMAIN wk :
             SetsMoving(w) =>
                 /\ Len(wk[w].todo) >= 3
                 /\ wk[w].todo[3].k = "install"
                 /\ wk[w].todo[3].axis = Head(wk[w].todo).axis
                 /\ wk[w].todo[3].d = TimerDuration(wk[w].call)
                 /\ wk[w].todo[3].d > 0
       /\ \A w \in DOMAIN wk :
             Installs(w) =>
                 LET o == Head(wk[w].todo)
                 IN  /\ stop_timers'[o.axis].state = "live"
                     /\ stop_timers'[o.axis].rem = TimerDuration(wk[w].call)
       /\ (\A w \in DOMAIN wk : wk'[w].pc = "idle") =>
             \A a \in Axes : status'[a] = "MOVING" => stop_timers'[a].state # "absent"
      ]_vars

\* A ContinuousMove with Timeout PT0S has been handled: Pan/Tilt is MOVING
\* and its timer runs for 5.0 s.
C31_Witness ==
    \E w \in DOMAIN wk :
        /\ wk[w].pc = "idle" /\ wk[w].req.op = "ContinuousMove"
        /\ wk[w].req.timeout = DurationOf(0)
        /\ wk[w].resp.code = 200
        /\ status["pantilt"] = "MOVING"
        /\ stop_timers["pantilt"] = LiveTimer(50)

----------------------------------------------------------------------------
(* Properties of the stop_movement threads: Spec *)

\* Handler thread w returns from a synthesized Pan/Tilt RelativeMove whose
\* first ContinuousMove succeeded.
SynthesizedReturns(w) ==
    /\ wk[w].pc = "track" /\ wk'[w].pc = "idle"
    /\ wk[w].req.op = "RelativeMove" /\ wk[w].req.pt.has

\* The steps of a stop_movement thread: asleep, calling the camera, tracking,
\* ended.
FollowUpProgress ==
    {<<"sleep", "sleep">>, <<"sleep", "call">>, <<"call", "call">>, <<"call", "track">>,
     <<"call", "done">>, <<"track", "track">>, <<"track", "done">>, <<"done", "done">>}

\* C32: a synthesized Pan/Tilt RelativeMove whose first ContinuousMove
\* succeeded starts one stop_movement thread, and nothing else starts one; a
\* thread stays in the list, no step of a handler changes what it is doing,
\* and it ends only after it has called the camera; when its call succeeds it
\* writes IDLE for Pan/Tilt and for Zoom, whatever the statuses are.
C32_OneFollowUpNeverCancelled ==
    [][/\ \A w \in DOMAIN wk :
             SynthesizedReturns(w) =>
                 /\ Len(followups') = Len(followups) + 1
                 /\ followups'[Len(followups')].pc = "sleep"
       /\ Len(followups') # Len(followups) => \E w \in DOMAIN wk : SynthesizedReturns(w)
       /\ \A i \in DOMAIN followups :
             /\ i \in DOMAIN followups'
             /\ <<followups[i].pc, followups'[i].pc>> \in FollowUpProgress
             /\ wk' # wk =>
                   [followups'[i] EXCEPT !.quiet = TRUE] = [followups[i] EXCEPT !.quiet = TRUE]
             /\ (followups[i].pc = "call" /\ followups'[i].pc = "track") =>
                   /\ Len(followups'[i].todo) = 4
                   /\ [j \in 1..4 |-> <<followups'[i].todo[j].k, followups'[i].todo[j].axis,
                                        followups'[i].todo[j].s>>]
                         = << <<"set", "pantilt", "IDLE">>, <<"cancel", "pantilt", "IDLE">>,
                              <<"set", "zoom", "IDLE">>, <<"cancel", "zoom", "IDLE">> >>
             /\ (/\ followups[i].pc = "track" /\ followups'[i].pc = "track"
                 /\ followups'[i].todo = Tail(followups[i].todo)
                 /\ Head(followups[i].todo).k = "set") =>
                   status'[Head(followups[i].todo).axis] = "IDLE"
             /\ (followups[i].pc = "track" /\ followups'[i].pc = "done") =>
                   followups'[i].result = "ok"
      ]_vars

\* A ContinuousMove handled after a RelativeMove set Pan/Tilt to MOVING and
\* installed its timer; the stop_movement thread of the RelativeMove has
\* since written IDLE and cancelled that timer.
C32_Witness ==
    /\ ncmd = 2
    /\ Len(followups) = 1 /\ followups[1].result = "ok"
    /\ status["pantilt"] = "IDLE"
    /\ stop_timers["pantilt"].state = "cancelled"
    /\ \E w \in DOMAIN wk :
          /\ wk[w].pc = "idle" /\ wk[w].req.op = "ContinuousMove"
          /\ wk[w].req.pt.has /\ wk[w].req.pt.x # 0
          /\ wk[w].resp.code = 200

\* The first ContinuousMove of the synthesized Pan/Tilt RelativeMove that
\* handler thread w has in hand does not return in this step.
FirstMoveFails(w) ==
    /\ wk[w].pc = "call" /\ wk'[w].pc \notin {"call", "track"}
    /\ wk[w].req.op = "RelativeMove" /\ wk[w].req.pt.has

\* C33: when the first ContinuousMove of a synthesized Pan/Tilt RelativeMove
\* fails, no stop_movement thread is started, that ContinuousMove is the only
\* outbound call of the request, statuses, position and timers are unchanged,
\* and the request is answered with a fault and status 500.
C33_FailedFirstMoveStartsNothing ==
    [][\A w \in DOMAIN wk :
          FirstMoveFails(w) =>
              /\ followups' = followups
              /\ tracker' = tracker
              /\ wk'[w].pc = "idle"
              /\ wk'[w].calls = <<wk[w].call>>
              /\ wk[w].call.m = "ContinuousMove"
              /\ wk'[w].resp.code = 500 /\ wk'[w].resp.body = "Fault"
      ]_vars

\* A Pan/Tilt RelativeMove has been answered with a fault on an idle tracker:
\* there is no stop_movement thread and both axes are IDLE without timer.
C33_Witness ==
    /\ ncmd = 1
    /\ followups = <<>>
    /\ \A a \in Axes : status[a] = "IDLE" /\ stop_timers[a] = NoTimer
    /\ \E w \in DOMAIN wk :
          /\ wk[w].pc = "idle" /\ wk[w].req.op = "RelativeMove" /\ wk[w].req.pt.has
          /\ wk[w].req.pt.x # 0
          /\ wk[w].resp.code = 500 /\ Len(wk[w].calls) = 1

----------------------------------------------------------------------------
(* Properties of RelativeMove with both components or none: Spec *)

\* C34: a RelativeMove with PanTilt and Zoom in its Translation makes no
\* camera RelativeMove and no step of its handler changes the estimated zoom
\* position; a RelativeMove with neither makes no outbound call, leaves
\* statuses, position and timers unchanged and is answered with status 200
\* and a RelativeMoveResponse.
C34_BothOrNeitherComponent ==
    [][\A w \in DOMAIN wk :
          /\ (/\ wk'[w] # wk[w]
              /\ wk'[w].req.op = "RelativeMove"
              /\ wk'[w].req.pt.has /\ wk'[w].req.zoom.has) =>
                 /\ estimated_position'.zx = estimated_position.zx
                 /\ \A j \in DOMAIN wk'[w].calls : wk'[w].calls[j].m # "RelativeMove"
          /\ (/\ wk'[w] # wk[w]
              /\ wk'[w].req.op = "RelativeMove"
              /\ ~wk'[w].req.pt.has /\ ~wk'[w].req.zoom.has) =>
                 /\ tracker' = tracker
                 /\ wk'[w].pc = "idle"
                 /\ wk'[w].calls = <<>>
                 /\ wk'[w].resp.code = 200
                 /\ wk'[w].resp.body = "RelativeMoveResponse"
      ]_vars

----------------------------------------------------------------------------
(* Properties of the axis a ContinuousMove does not carry: Spec *)

\* The estimated position of axis a.
PositionOf(pos, a) == IF a = "pantilt" THEN <<pos.ptx, pos.pty>> ELSE <<pos.zx>>

\* C35: no step of the handler of a ContinuousMove that has a non-zero
\* velocity component changes the status, the timer or the estimated position
\* of an axis that its Velocity lacks.
C35_AbsentAxisUnchanged ==
    [][\A w \in DOMAIN wk :
          (/\ wk'[w] # wk[w]
           /\ wk'[w].req.op = "ContinuousMove"
           /\ ~IsStop(wk'[w].req)) =>
              \A a \in Axes :
                  ~Carries(wk'[w].req, a) =>
                      /\ status'[a] = status[a]
                      /\ stop_timers'[a] = stop_timers[a]
                      /\ PositionOf(estimated_position', a) = PositionOf(estimated_position, a)
      ]_vars

----------------------------------------------------------------------------
(* Properties of what changes the tracker: DispatchSpec *)

\* The timers of table tm without the time they have left.
Pending(tm) == [a \in Axes |-> <<tm[a].state, tm[a].dur>>]

\* Statuses, estimated position or timers differ between the two states of
\* the step; time passing for a running timer is no difference.
TrackerChanges ==
    \/ status' # status
    \/ estimated_position' # estimated_position
    \/ Pending(stop_timers') # Pending(stop_timers)

\* C36: a step that changes a status, the estimated position or a timer is a
\* step of the handler of a ContinuousMove, RelativeMove, AbsoluteMove or Stop
\* received on the PTZ service, the firing of a timer, or a step of a
\* stop_movement thread; and once a request to another service, or a request
\* with any other operation, has been routed, nothing changes them.
C36_OnlyPtzMovesChangeTracker ==
    [][/\ TrackerChanges =>
             \/ \E w \in DOMAIN wk :
                   /\ wk[w].pc = "track" /\ wk'[w] # wk[w]
                   /\ wk[w].req.op \in MoveOperations
                   /\ routed.operation = wk[w].req.op
                   /\ routed.normalized_service = PtzService
             \/ \E a \in Axes :
                   stop_timers[a].state = "live" /\ stop_timers'[a].state = "fired"
             \/ \E i \in DOMAIN followups : followups'[i] # followups[i]
       /\ (/\ routed'.pc = "answered"
           /\ \/ routed'.normalized_service # PtzService
              \/ routed'.operation \notin MoveOperations) =>
              /\ ~TrackerChanges
              /\ followups' = <<>>
      ]_vars

\* A ContinuousMove sent to the media service has been forwarded to the
\* camera, and a GetStatus sent to the PTZ service has been answered by its
\* handler: in both cases the axes are IDLE and no timer has been installed.
C36_Witness ==
    /\ routed.pc = "answered"
    /\ \A a \in Axes : status[a] = "IDLE" /\ stop_timers[a] = NoTimer
    /\ \/ /\ routed.operation = "ContinuousMove"
          /\ routed.normalized_service = MediaService
          /\ routed.forwarded = 1
       \/ /\ routed.operation = "GetStatus"
          /\ routed.normalized_service = PtzService
          /\ \E w \in DOMAIN wk : wk[w].req.op = "GetStatus" /\ wk[w].resp.code = 200

----------------------------------------------------------------------------
(* Properties of the tracker's lock: Spec *)

\* C37: every step of a handler thread or of a stop_movement thread that
\* reads or changes a status, the estimated position or the table of timers
\* is made while the thread holds _status_lock.
C37_TrackerAccessUnderLock ==
    [][/\ \A w \in DOMAIN wk :
             (/\ wk[w].pc = "track" /\ wk[w].todo # <<>>
              /\ wk'[w].todo = Tail(wk[w].todo)) => HoldsLock(Head(wk[w].todo))
       /\ \A i \in DOMAIN followups :
             (/\ followups[i].pc = "track"
              /\ \/ followups'[i].pc = "done"
                 \/ followups'[i].todo = Tail(followups[i].todo)) =>
                 HoldsLock(Head(followups[i].todo))
      ]_vars

====
